---- MODULE Spec2Model ----
(***************************************************************************)
(* Model of the chat server: ChatController (single-shot chat over a      *)
(* one-node LangGraph), the streaming chat route's generate() and the     *)
(* SSEFormatter wire encoding.                                            *)
(*                                                                         *)
(* Text that reaches the wire is a sequence of one-character strings, so  *)
(* that JSON escaping and SSE framing are computed, not assumed.          *)
(***************************************************************************)
EXTENDS Integers, Sequences, FiniteSets, TLC

(* ---------------------------------------------------------------------- *)
(* Bounds of the model                                                     *)
(* ---------------------------------------------------------------------- *)
MaxLen == 2       \* longest payload text given to the formatter
MaxMsgs == 2      \* longest message list of one request
MaxFrags == 2     \* most fragments one stream yields
NumReqs == 2      \* requests alive at once on the shared controller

(* ---------------------------------------------------------------------- *)
(* Python values                                                           *)
(* ---------------------------------------------------------------------- *)
None == [t |-> "none"]
PyStr(s) == [t |-> "str", v |-> s]
PyDict(kv) == [t |-> "dict", v |-> kv]

\* characters of payload text: plain, the two JSON metacharacters, a line
\* feed and one non-ASCII letter
Alphabet == {"H", "\"", "\\", "\n", "é"}

(* ---------------------------------------------------------------------- *)
(* json.dumps, as called by format_event (default ensure_ascii=True)       *)
(* ---------------------------------------------------------------------- *)
EscapeChar(c) ==
    CASE c = "\"" -> <<"\\", "\"">>
      [] c = "\\" -> <<"\\", "\\">>
      [] c = "\n" -> <<"\\", "n">>
      [] c = "é"  -> <<"\\", "u", "0", "0", "e", "9">>
      [] OTHER    -> <<c>>

RECURSIVE EscapeString(_)
EscapeString(s) ==
    IF s = <<>> THEN <<>> ELSE EscapeChar(Head(s)) \o EscapeString(Tail(s))

JsonString(s) == <<"\"">> \o EscapeString(s) \o <<"\"">>

RECURSIVE JsonItems(_)
JsonItems(kv) ==
    IF kv = <<>> THEN <<>>
    ELSE JsonString(Head(kv)[1]) \o <<":", " ">> \o JsonString(Head(kv)[2])
         \o (IF Tail(kv) = <<>> THEN <<>> ELSE <<",", " ">> \o JsonItems(Tail(kv)))

json_dumps(x) ==
    CASE x.t = "str"  -> JsonString(x.v)
      [] x.t = "dict" -> <<"{">> \o JsonItems(x.v) \o <<"}">>
      [] OTHER        -> <<"n", "u", "l", "l">>

(* ---------------------------------------------------------------------- *)
(* StreamEventType and SSEFormatter                                        *)
(* ---------------------------------------------------------------------- *)
TOKEN == "token"
ERROR == "error"
DONE == "done"
METADATA == "metadata"
StreamEventType == {TOKEN, ERROR, DONE, METADATA}

\* event_type.value, spelled out as characters
EventTypeValue(event_type) ==
    CASE event_type = TOKEN    -> <<"t", "o", "k", "e", "n">>
      [] event_type = ERROR    -> <<"e", "r", "r", "o", "r">>
      [] event_type = METADATA -> <<"m", "e", "t", "a", "d", "a", "t", "a">>
      [] OTHER                 -> <<"d", "o", "n", "e">>

DataPrefix == <<"d", "a", "t", "a", ":", " ">>
BlankLine == <<"\n", "\n">>
DoneLine == DataPrefix \o <<"[", "D", "O", "N", "E", "]">>

format_event_one_newline(event_type, data) ==
    IF event_type = DONE THEN DoneLine \o BlankLine
    ELSE IF data = None THEN <<>>
    ELSE DataPrefix
         \o <<"{">> \o JsonString(EventTypeValue(event_type)) \o <<":", " ">>
         \o json_dumps(data) \o <<"}">>
         \o <<"\n">>

format_event(event_type, data) ==
    IF event_type = DONE THEN DoneLine \o BlankLine
    ELSE IF data = None THEN <<>>
    ELSE DataPrefix
         \o <<"{">> \o JsonString(EventTypeValue(event_type)) \o <<":", " ">>
         \o json_dumps(data) \o <<"}">>
         \o BlankLine

format_token(token) == format_event(TOKEN, token)
format_error(error_message) == format_event(ERROR, error_message)
format_done == format_event(DONE, None)
format_metadata(metadata) == format_event(METADATA, metadata)

(* ---------------------------------------------------------------------- *)
(* Configuration and request inputs                                        *)
(* ---------------------------------------------------------------------- *)
\* a model identifier is its pieces around the colon: "anthropic:claude"
\* is <<"anthropic", ":", "claude">>, the empty string is <<>>
DefaultModel == PyStr(<<"anthropic", ":", "claude">>)
DefaultTemperature == 7          \* tenths: 0.7
PyNum(n) == [t |-> "num", v |-> n]

Settings ==
    [langgraph |-> [default_model |-> DefaultModel,
                    temperature |-> PyNum(DefaultTemperature)]]

SupportedProviders == {"anthropic", "openai", "google_genai"}

ModelIds ==
    {<<"anthropic", ":", "claude">>, <<"unknownprovider", ":", "x">>, <<"nocolon">>, <<>>}
ModelArgs == {None} \cup {PyStr(m) : m \in ModelIds}
TemperatureArgs == {None, PyNum(0), PyNum(3)}

Roles == {"user", "assistant", "system", "tool"}
Contents == {"a", "b"}
Message(role, content) == [role |-> role, content |-> content]
Messages == {Message(r, c) : r \in Roles, c \in Contents}

RECURSIVE SeqsUpTo(_, _)
SeqsUpTo(S, n) ==
    IF n = 0 THEN {<<>>}
    ELSE LET P == SeqsUpTo(S, n - 1)
         IN P \cup {Append(s, x) : s \in {y \in P : Len(y) = n - 1}, x \in S}

MessageLists == SeqsUpTo(Messages, MaxMsgs)

Replies == {"r1", "r2"}

\* exceptions: the type and str(e)
Exception(type, msg) == [type |-> type, msg |-> msg]
ResolutionError == Exception("ValueError", <<"b", "a", "d">>)
InvocationErrors ==
    {Exception("APIError", <<"5", "0", "0">>),
     Exception("APIError", <<"\"", "x">>)}

Truthy(x) == x # None /\ x.v # <<>>

(* ---------------------------------------------------------------------- *)
(* ChatController: pure parts                                              *)
(* ---------------------------------------------------------------------- *)
KnownRoles == {"user", "assistant", "system"}

ConvertRole_unknown_kept(role) == role

ConvertRole(role) ==
    IF role = "user" THEN "user"
    ELSE IF role = "assistant" THEN "assistant"
    ELSE IF role = "system" THEN "system"
    ELSE "user"

RECURSIVE _convert_messages(_)
_convert_messages(messages) ==
    IF messages = <<>> THEN <<>>
    ELSE <<<<ConvertRole(Head(messages).role), Head(messages).content>>>>
         \o _convert_messages(Tail(messages))

\* init_chat_model(model, temperature): the provider is the piece before
\* the colon; anything else cannot be resolved
Resolvable(model) ==
    /\ Len(model.v) = 3
    /\ model.v[2] = ":"
    /\ model.v[1] \in SupportedProviders

_get_llm(model, temperature) ==
    IF Resolvable(model)
    THEN [ok |-> TRUE,
          llm |-> [provider |-> model.v[1], name |-> model.v[3],
                   temperature |-> temperature]]
    ELSE [ok |-> FALSE, exc |-> ResolutionError]

\* langchain's message for a (role, content) pair
MessageType(role) ==
    CASE role = "user"      -> "human"
      [] role = "assistant" -> "ai"
      [] OTHER              -> "system"

BaseMessage(type, content, id) == [type |-> type, content |-> content, id |-> id]

RECURSIVE convert_to_messages(_)
convert_to_messages(pairs) ==
    IF pairs = <<>> THEN <<>>
    ELSE <<BaseMessage(MessageType(Head(pairs)[1]), Head(pairs)[2], 0)>>
         \o convert_to_messages(Tail(pairs))

\* add_messages gives every message without an id a fresh one (uuid4) ...
MaxId(ms) ==
    LET ids == {ms[i].id : i \in 1..Len(ms)} \cup {0}
    IN CHOOSE m \in ids : \A n \in ids : n <= m

RECURSIVE AssignIds(_, _)
AssignIds(ms, used) ==
    IF ms = <<>> THEN <<>>
    ELSE IF Head(ms).id = 0
         THEN <<[Head(ms) EXCEPT !.id = used + 1]>> \o AssignIds(Tail(ms), used + 1)
         ELSE <<Head(ms)>> \o AssignIds(Tail(ms), used)

\* ... and then merges right into left: a message whose id is already
\* present replaces that entry, any other is appended
RECURSIVE MergeById(_, _)
MergeById(merged, right) ==
    IF right = <<>> THEN merged
    ELSE LET m == Head(right)
             hit == {i \in 1..Len(merged) : merged[i].id = m.id}
         IN IF hit # {}
            THEN MergeById([merged EXCEPT ![CHOOSE i \in hit : TRUE] = m], Tail(right))
            ELSE MergeById(Append(merged, m), Tail(right))

add_messages_replace_last(left, right) ==
    IF left = <<>> THEN right ELSE SubSeq(left, 1, Len(left) - 1) \o right

add_messages(left, right) ==
    LET base == IF MaxId(left) >= MaxId(right) THEN MaxId(left) ELSE MaxId(right)
        l == AssignIds(left, base)
        r == AssignIds(right, IF MaxId(l) >= base THEN MaxId(l) ELSE base)
    IN MergeById(l, r)

(* ---------------------------------------------------------------------- *)
(* State                                                                   *)
(* ---------------------------------------------------------------------- *)
VARIABLES
    controller,     \* the module-level ChatController: settings and defaults
    running,        \* the request whose code holds the event loop, 0 if none
    pc,             \* pc[r]: where request r stands
    req,            \* req[r]: the ChatRequest (messages, model, temperature)
    used,           \* used[r]: used_model and used_temperature
    converted,      \* converted[r]: converted_messages
    llm,            \* llm[r]: the handle _get_llm returned
    state,          \* state[r]: the State of r's own graph (messages)
    ret,            \* ret[r]: what chat() returned or raised
    resolverCalls,  \* resolverCalls[r]: the (model, temperature) given to _get_llm
    llmSaw,         \* llmSaw[r]: the handle's calls: history given, outcome
    token,          \* token[r]: the fragment the producer last yielded
    produced,       \* produced[r]: the fragments the producer yielded so far
    events,         \* events[r]: what generate() yielded, in order
    cancelled,      \* cancelled[r]: the client of stream r disconnected
    provider,       \* provider[r]: r's provider call: "none", "open", "released"
    fmt             \* the last direct SSEFormatter call and its result

vars == <<controller, running, pc, req, used, converted, llm, state, ret,
          resolverCalls, llmSaw, token, produced, events, cancelled, provider, fmt>>

Reqs == 1..NumReqs

Init ==
    /\ controller = [settings |-> Settings,
                     default_model |-> Settings.langgraph.default_model,
                     default_temperature |-> Settings.langgraph.temperature]
    /\ running = 0
    /\ pc = [r \in Reqs |-> "idle"]
    /\ req = [r \in Reqs |-> None]
    /\ used = [r \in Reqs |-> None]
    /\ converted = [r \in Reqs |-> <<>>]
    /\ llm = [r \in Reqs |-> None]
    /\ state = [r \in Reqs |-> None]
    /\ ret = [r \in Reqs |-> None]
    /\ resolverCalls = [r \in Reqs |-> <<>>]
    /\ llmSaw = [r \in Reqs |-> <<>>]
    /\ token = [r \in Reqs |-> None]
    /\ produced = [r \in Reqs |-> <<>>]
    /\ events = [r \in Reqs |-> <<>>]
    /\ cancelled = [r \in Reqs |-> FALSE]
    /\ provider = [r \in Reqs |-> "none"]
    /\ fmt = None

streamVars == <<token, produced, events>>
taskVars == <<cancelled, provider>>

(* ---------------------------------------------------------------------- *)
(* ChatController.chat, one action per statement.  chat() has no await:    *)
(* from its first statement to its return or raise it holds the loop.      *)
(* ---------------------------------------------------------------------- *)
UsedModel(model) == IF Truthy(model) THEN model ELSE controller.default_model

UsedTemperature_or_default(temperature) ==
    IF temperature # None /\ temperature.v # 0 THEN temperature
    ELSE controller.default_temperature

UsedTemperature(temperature) ==
    IF temperature # None THEN temperature ELSE controller.default_temperature

\* lines 135-139
ChatCall(r, messages, model, temperature) ==
    /\ pc[r] = "idle"
    /\ running = 0
    /\ running' = r
    /\ req' = [req EXCEPT ![r] = [kind |-> "chat", messages |-> messages,
                                  model |-> model, temperature |-> temperature]]
    /\ used' = [used EXCEPT ![r] = [model |-> UsedModel(model),
                                    temperature |-> UsedTemperature(temperature)]]
    /\ pc' = [pc EXCEPT ![r] = "convert"]
    /\ UNCHANGED <<controller, converted, llm, state, ret, resolverCalls, llmSaw,
                   streamVars, taskVars, fmt>>

\* line 142
ChatConvert(r) ==
    /\ pc[r] = "convert"
    /\ converted' = [converted EXCEPT ![r] = _convert_messages(req[r].messages)]
    /\ pc' = [pc EXCEPT ![r] = "get_llm"]
    /\ UNCHANGED <<controller, running, req, used, llm, state, ret, resolverCalls,
                   llmSaw, streamVars, taskVars, fmt>>

\* line 145: the handle, or the resolver's error leaves chat()
ChatGetLlm(r) ==
    /\ pc[r] = "get_llm"
    /\ resolverCalls' = [resolverCalls EXCEPT ![r] =
                            Append(@, <<used[r].model, used[r].temperature>>)]
    /\ LET got == _get_llm(used[r].model, used[r].temperature)
       IN IF got.ok
          THEN /\ llm' = [llm EXCEPT ![r] = got.llm]
               /\ pc' = [pc EXCEPT ![r] = "build_graph"]
               /\ UNCHANGED <<ret, running>>
          ELSE /\ ret' = [ret EXCEPT ![r] = [kind |-> "raise", exc |-> got.exc]]
               /\ pc' = [pc EXCEPT ![r] = "raised"]
               /\ running' = 0
               /\ UNCHANGED llm
    /\ UNCHANGED <<controller, req, used, converted, state, llmSaw, streamVars, taskVars, fmt>>

\* line 148: a new graph for this call, compiled without checkpointer, so
\* its State starts empty
_build_graph_shared_history(r) ==
    LET others == {q \in Reqs : q # r /\ llmSaw[q] # <<>>}
    IN IF others = {} THEN [messages |-> <<>>]
       ELSE [messages |-> llmSaw[CHOOSE q \in others : TRUE][1].history]

_build_graph(r) == [messages |-> <<>>]

ChatBuildGraph(r) ==
    /\ pc[r] = "build_graph"
    /\ state' = [state EXCEPT ![r] = _build_graph(r)]
    /\ pc' = [pc EXCEPT ![r] = "graph_start"]
    /\ UNCHANGED <<controller, running, req, used, converted, llm, ret,
                   resolverCalls, llmSaw, streamVars, taskVars, fmt>>

\* line 151, START: the input is written to State through add_messages
GraphStart(r) ==
    /\ pc[r] = "graph_start"
    /\ state' = [state EXCEPT ![r].messages =
                    add_messages(@, convert_to_messages(converted[r]))]
    /\ pc' = [pc EXCEPT ![r] = "chatbot"]
    /\ UNCHANGED <<controller, running, req, used, converted, llm, ret,
                   resolverCalls, llmSaw, streamVars, taskVars, fmt>>

\* lines 104-106: the node calls the handle with State's messages and
\* returns the one reply, which add_messages writes to State
chatbot_swallows_error(st, outcome) ==
    IF outcome.ok
    THEN [ok |-> TRUE,
          messages |-> add_messages(st.messages, <<BaseMessage("ai", outcome.content, 0)>>)]
    ELSE [ok |-> TRUE,
          messages |-> add_messages(st.messages, <<BaseMessage("ai", "error", 0)>>)]

chatbot(st, outcome) ==
    IF outcome.ok
    THEN [ok |-> TRUE,
          messages |-> add_messages(st.messages, <<BaseMessage("ai", outcome.content, 0)>>)]
    ELSE [ok |-> FALSE, exc |-> outcome.exc]

LlmOutcomes ==
    {[ok |-> TRUE, content |-> c] : c \in Replies}
    \cup {[ok |-> FALSE, exc |-> e] : e \in InvocationErrors}

Chatbot(r, outcome) ==
    /\ pc[r] = "chatbot"
    /\ llmSaw' = [llmSaw EXCEPT ![r] =
                      Append(@, [history |-> state[r].messages, outcome |-> outcome])]
    /\ LET out == chatbot(state[r], outcome)
       IN IF out.ok
          THEN /\ state' = [state EXCEPT ![r].messages = out.messages]
               /\ pc' = [pc EXCEPT ![r] = "graph_end"]
               /\ UNCHANGED <<ret, running>>
          ELSE /\ ret' = [ret EXCEPT ![r] = [kind |-> "raise", exc |-> out.exc]]
               /\ pc' = [pc EXCEPT ![r] = "raised"]
               /\ running' = 0
               /\ UNCHANGED state
    /\ UNCHANGED <<controller, req, used, converted, llm, resolverCalls,
                   streamVars, taskVars, fmt>>

\* lines 153-159
ChatReturn(r) ==
    /\ pc[r] = "graph_end"
    /\ LET result == state[r]
           last_message == result.messages[Len(result.messages)]
       IN ret' = [ret EXCEPT ![r] = [kind |-> "return",
                                     value |-> [message |-> last_message.content,
                                                model |-> used[r].model]]]
    /\ pc' = [pc EXCEPT ![r] = "returned"]
    /\ running' = 0
    /\ UNCHANGED <<controller, req, used, converted, llm, state, resolverCalls,
                   llmSaw, streamVars, taskVars, fmt>>

\* the request is over: its frame and its graph are dropped
Forget(r) ==
    /\ pc[r] \in {"returned", "raised", "finished", "cancelled"}
    /\ pc' = [pc EXCEPT ![r] = "idle"]
    /\ req' = [req EXCEPT ![r] = None]
    /\ used' = [used EXCEPT ![r] = None]
    /\ converted' = [converted EXCEPT ![r] = <<>>]
    /\ llm' = [llm EXCEPT ![r] = None]
    /\ state' = [state EXCEPT ![r] = None]
    /\ ret' = [ret EXCEPT ![r] = None]
    /\ resolverCalls' = [resolverCalls EXCEPT ![r] = <<>>]
    /\ llmSaw' = [llmSaw EXCEPT ![r] = <<>>]
    /\ token' = [token EXCEPT ![r] = None]
    /\ produced' = [produced EXCEPT ![r] = <<>>]
    /\ events' = [events EXCEPT ![r] = <<>>]
    /\ cancelled' = [cancelled EXCEPT ![r] = FALSE]
    /\ provider' = [provider EXCEPT ![r] = "none"]
    /\ UNCHANGED <<controller, running, fmt>>

(* ---------------------------------------------------------------------- *)
(* The streaming route: generate() around the fragment producer            *)
(* chat_controller.chat_stream(messages, model, temperature).              *)
(* Between its suspension points generate() runs on the loop undisturbed;  *)
(* it is suspended while the producer awaits the provider and at a yield.  *)
(* ---------------------------------------------------------------------- *)
Fragments == {<<"H", "i">>, <<"!">>, <<"\"">>, <<>>}

\* line 47-53: the response starts iterating generate(), which enters its
\* try block and asks the producer for the first fragment
GenStart(r, messages, model, temperature) ==
    /\ pc[r] = "idle"
    /\ running = 0
    /\ req' = [req EXCEPT ![r] = [kind |-> "stream", messages |-> messages,
                                  model |-> model, temperature |-> temperature]]
    /\ pc' = [pc EXCEPT ![r] = "s_resolve"]
    /\ UNCHANGED <<controller, running, used, converted, llm, state, ret,
                   resolverCalls, llmSaw, streamVars, taskVars, fmt>>

\* the producer holds its provider call in a scope that releases it on
\* every way out: exhaustion, failure, cancellation
ProviderAfterExit(p) == IF p = "open" THEN "released" ELSE p

\* the producer, before its first fragment: defaults, conversion, handle
\* and graph as in chat(); the resolver's error is raised into generate()
StreamResolve(r) ==
    /\ pc[r] = "s_resolve"
    /\ running = 0
    /\ LET m == UsedModel(req[r].model)
           t == UsedTemperature(req[r].temperature)
           got == _get_llm(m, t)
       IN /\ used' = [used EXCEPT ![r] = [model |-> m, temperature |-> t]]
          /\ converted' = [converted EXCEPT ![r] = _convert_messages(req[r].messages)]
          /\ resolverCalls' = [resolverCalls EXCEPT ![r] = Append(@, <<m, t>>)]
          /\ IF got.ok
             THEN /\ llm' = [llm EXCEPT ![r] = got.llm]
                  /\ state' = [state EXCEPT ![r] =
                        [messages |-> add_messages(_build_graph(r).messages,
                            convert_to_messages(_convert_messages(req[r].messages)))]]
                  /\ pc' = [pc EXCEPT ![r] = "s_await"]
                  /\ provider' = [provider EXCEPT ![r] = "open"]
                  /\ UNCHANGED ret
             ELSE /\ ret' = [ret EXCEPT ![r] = [kind |-> "raise", exc |-> got.exc]]
                  /\ pc' = [pc EXCEPT ![r] = "except"]
                  /\ UNCHANGED <<llm, state, provider>>
    /\ UNCHANGED <<controller, running, req, llmSaw, streamVars, cancelled, fmt>>

\* the producer yields the next fragment
StreamFragment(r, f) ==
    /\ pc[r] = "s_await"
    /\ running = 0
    /\ Len(produced[r]) < MaxFrags
    /\ llmSaw' = [llmSaw EXCEPT ![r] =
                     IF @ = <<>> THEN <<[history |-> state[r].messages]>> ELSE @]
    /\ produced' = [produced EXCEPT ![r] = Append(@, f)]
    /\ token' = [token EXCEPT ![r] = PyStr(f)]
    /\ pc' = [pc EXCEPT ![r] = "yield_token"]
    /\ UNCHANGED <<controller, running, req, used, converted, llm, state, ret,
                   resolverCalls, events, taskVars, fmt>>

\* the producer is exhausted
StreamEnd(r) ==
    /\ pc[r] = "s_await"
    /\ running = 0
    /\ llmSaw' = [llmSaw EXCEPT ![r] =
                     IF @ = <<>> THEN <<[history |-> state[r].messages]>> ELSE @]
    /\ pc' = [pc EXCEPT ![r] = "yield_done"]
    /\ provider' = [provider EXCEPT ![r] = ProviderAfterExit(@)]
    /\ UNCHANGED <<controller, running, req, used, converted, llm, state, ret,
                   resolverCalls, streamVars, cancelled, fmt>>

\* the provider call fails while the producer waits for it
StreamFail(r, e) ==
    /\ pc[r] = "s_await"
    /\ running = 0
    /\ llmSaw' = [llmSaw EXCEPT ![r] =
                     IF @ = <<>> THEN <<[history |-> state[r].messages]>> ELSE @]
    /\ ret' = [ret EXCEPT ![r] = [kind |-> "raise", exc |-> e]]
    /\ pc' = [pc EXCEPT ![r] = "except"]
    /\ provider' = [provider EXCEPT ![r] = ProviderAfterExit(@)]
    /\ UNCHANGED <<controller, running, req, used, converted, llm, state,
                   resolverCalls, streamVars, cancelled, fmt>>

\* line 54: yield SSEFormatter.format_token(token)
generate_on_token_newest_first(evs, tok) == <<format_token(tok)>> \o evs

generate_on_token(evs, tok) == Append(evs, format_token(tok))

GenYieldToken(r) ==
    /\ pc[r] = "yield_token"
    /\ running = 0
    /\ events' = [events EXCEPT ![r] = generate_on_token(@, token[r])]
    /\ pc' = [pc EXCEPT ![r] = "s_await"]
    /\ UNCHANGED <<controller, running, req, used, converted, llm, state, ret,
                   resolverCalls, llmSaw, token, produced, taskVars, fmt>>

\* line 56: yield SSEFormatter.format_done(), then generate() returns
generate_on_exhausted(evs) == Append(evs, format_done)

GenYieldDone(r) ==
    /\ pc[r] = "yield_done"
    /\ running = 0
    /\ events' = [events EXCEPT ![r] = generate_on_exhausted(@)]
    /\ pc' = [pc EXCEPT ![r] = "finished"]
    /\ UNCHANGED <<controller, running, req, used, converted, llm, state, ret,
                   resolverCalls, llmSaw, token, produced, taskVars, fmt>>

\* lines 58-59: except Exception as e: yield format_error(str(e)), then
\* generate() returns
generate_on_exception_then_done(evs, e) ==
    Append(Append(evs, format_error(PyStr(e.msg))), format_done)

generate_on_exception(evs, e) == Append(evs, format_error(PyStr(e.msg)))

GenYieldError(r) ==
    /\ pc[r] = "except"
    /\ running = 0
    /\ events' = [events EXCEPT ![r] = generate_on_exception(@, ret[r].exc)]
    /\ pc' = [pc EXCEPT ![r] = "finished"]
    /\ UNCHANGED <<controller, running, req, used, converted, llm, state, ret,
                   resolverCalls, llmSaw, token, produced, taskVars, fmt>>

\* line 58: "except Exception" does not catch what derives from
\* BaseException alone, as asyncio.CancelledError and GeneratorExit do
BaseExceptionOnly == {"CancelledError", "GeneratorExit", "KeyboardInterrupt", "SystemExit"}

generate_catches_everything(type) == TRUE

generate_catches(type) == type \notin BaseExceptionOnly

\* the client disconnects: the response's task is cancelled while
\* generate() is suspended, waiting for the producer's next fragment or at
\* the yield that delivered the last one; the cancellation passes through
\* the producer into generate()
Cancel(r) ==
    /\ pc[r] \in {"s_resolve", "s_await"}
    /\ running = 0
    /\ cancelled' = [cancelled EXCEPT ![r] = TRUE]
    /\ provider' = [provider EXCEPT ![r] = ProviderAfterExit(@)]
    /\ IF generate_catches("CancelledError")
       THEN /\ ret' = [ret EXCEPT ![r] =
                        [kind |-> "raise", exc |-> Exception("CancelledError", <<>>)]]
            /\ pc' = [pc EXCEPT ![r] = "except"]
       ELSE /\ pc' = [pc EXCEPT ![r] = "cancelled"]
            /\ UNCHANGED ret
    /\ UNCHANGED <<controller, running, req, used, converted, llm, state,
                   resolverCalls, llmSaw, streamVars, fmt>>

StreamStep(r, frags, errors) ==
    \/ StreamResolve(r)
    \/ \E f \in frags : StreamFragment(r, f)
    \/ StreamEnd(r)
    \/ \E e \in errors : StreamFail(r, e)
    \/ GenYieldToken(r)
    \/ GenYieldDone(r)
    \/ GenYieldError(r)

ChatStep(r, outcomes) ==
    \/ ChatConvert(r)
    \/ ChatGetLlm(r)
    \/ ChatBuildGraph(r)
    \/ GraphStart(r)
    \/ \E outcome \in outcomes : Chatbot(r, outcome)
    \/ ChatReturn(r)

\* one request at a time, every input
NextChat ==
    \/ \E messages \in MessageLists, model \in ModelArgs, temperature \in TemperatureArgs :
          ChatCall(1, messages, model, temperature)
    \/ ChatStep(1, LlmOutcomes)
    \/ Forget(1)

SpecChat == Init /\ [][NextChat]_vars

\* one stream at a time, every fragment sequence
StreamMessageLists == {<<>>, <<Message("user", "a")>>,
                       <<Message("system", "b"), Message("tool", "a")>>}

NextStream ==
    \/ \E messages \in StreamMessageLists, model \in ModelArgs :
          GenStart(1, messages, model, None)
    \/ StreamStep(1, Fragments, InvocationErrors)
    \/ Cancel(1)
    \/ Forget(1)

SpecStream == Init /\ [][NextStream]_vars

\* requests of both kinds side by side on the one controller and loop
SharedMessageLists == {<<Message("user", "a")>>, <<Message("tool", "b")>>}
SharedModelArgs == {None, PyStr(<<"unknownprovider", ":", "x">>)}
SharedOutcomes == {[ok |-> TRUE, content |-> "r1"],
                   [ok |-> FALSE, exc |-> Exception("APIError", <<"5", "0", "0">>)]}
SharedFragments == {<<"!">>}
SharedErrors == {Exception("APIError", <<"5", "0", "0">>)}

Next ==
    \E r \in Reqs :
        \/ \E messages \in SharedMessageLists, model \in SharedModelArgs :
              ChatCall(r, messages, model, None)
        \/ ChatStep(r, SharedOutcomes)
        \/ \E messages \in SharedMessageLists, model \in SharedModelArgs :
              GenStart(r, messages, model, None)
        \/ StreamStep(r, SharedFragments, SharedErrors)
        \/ Cancel(r)
        \/ Forget(r)

Spec == Init /\ [][Next]_vars

\* the formatter called directly, with every payload
Strings == SeqsUpTo(Alphabet, MaxLen)
MetadataPayloads ==
    {PyDict(<<>>)}
    \cup {PyDict(<<<<<<"k">>, v>>>>) : v \in SeqsUpTo(Alphabet, 1)}
    \cup {PyDict(<<<<<<"k">>, v>>, <<<<"\"">>, <<"H">>>>>>) : v \in SeqsUpTo(Alphabet, 1)}
Payloads == {None} \cup {PyStr(x) : x \in Strings} \cup MetadataPayloads

Call(name, event_type, data, out) ==
    [call |-> name, event_type |-> event_type, data |-> data, out |-> out]

nonFmtVars == <<controller, running, pc, req, used, converted, llm, state, ret,
                resolverCalls, llmSaw, streamVars, taskVars>>

FormatEvent(event_type, data) ==
    /\ fmt' = Call("format_event", event_type, data, format_event(event_type, data))
    /\ UNCHANGED nonFmtVars

FormatToken(tok) ==
    /\ fmt' = Call("format_token", TOKEN, tok, format_token(tok))
    /\ UNCHANGED nonFmtVars

FormatError(error_message) ==
    /\ fmt' = Call("format_error", ERROR, error_message, format_error(error_message))
    /\ UNCHANGED nonFmtVars

FormatDone ==
    /\ fmt' = Call("format_done", DONE, None, format_done)
    /\ UNCHANGED nonFmtVars

FormatMetadata(metadata) ==
    /\ fmt' = Call("format_metadata", METADATA, metadata, format_metadata(metadata))
    /\ UNCHANGED nonFmtVars

NextFmt ==
    \/ \E event_type \in StreamEventType, data \in Payloads : FormatEvent(event_type, data)
    \/ \E x \in Strings : FormatToken(PyStr(x))
    \/ \E x \in Strings : FormatError(PyStr(x))
    \/ FormatDone
    \/ \E metadata \in MetadataPayloads : FormatMetadata(metadata)

SpecFmt == Init /\ [][NextFmt]_vars

(* ---------------------------------------------------------------------- *)
(* Properties of the single-shot path                                      *)
(* ---------------------------------------------------------------------- *)
AfterConvert == {"get_llm", "build_graph", "graph_start", "chatbot", "graph_end",
                 "returned", "raised"}
AfterGetLlm == AfterConvert \ {"get_llm"}

\* C4: N input messages become N (role, content) pairs in the same order,
\* and after the one invocation the graph's history has N+1 entries: the N
\* converted messages in order, then the message the handle returned.
C4_HistoryIsInputPlusReply ==
    \A r \in Reqs :
        (req[r] # None /\ req[r].kind = "chat" /\ pc[r] \in {"graph_end", "returned"}) =>
            LET N == Len(req[r].messages)
                h == state[r].messages
            IN /\ Len(converted[r]) = N
               /\ \A i \in 1..N : converted[r][i][2] = req[r].messages[i].content
               /\ Len(h) = N + 1
               /\ \A i \in 1..N :
                     /\ h[i].type = MessageType(converted[r][i][1])
                     /\ h[i].content = converted[r][i][2]
               /\ Len(llmSaw[r]) = 1
               /\ h[N + 1].type = "ai"
               /\ h[N + 1].content = llmSaw[r][1].outcome.content
               /\ \A i, j \in 1..(N + 1) : i # j => h[i].id # h[j].id

C4_Witness ==
    /\ pc[1] = "returned"
    /\ req[1].kind = "chat"
    /\ Len(req[1].messages) = 2
    /\ req[1].messages[1] = Message("system", "a")
    /\ req[1].messages[2] = Message("user", "b")

\* C5: a successful call returns the default identifier when none was
\* given, and otherwise exactly the given string, which is also the one the
\* resolver received.
C5_ModelFieldIsGivenOrDefault ==
    \A r \in Reqs :
        (pc[r] = "returned" /\ req[r].kind = "chat") =>
            /\ req[r].model = None => ret[r].value.model = controller.default_model
            /\ req[r].model # None =>
                  /\ ret[r].value.model = req[r].model
                  /\ resolverCalls[r][1][1] = req[r].model

\* C6: a role outside {user, assistant, system} becomes "user", a role
\* inside it is kept (so converting again changes nothing), the conversion
\* does not raise, and the content is passed through.
C6_RoleNormalization ==
    \A r \in Reqs :
        (req[r] # None /\ req[r].kind = "chat" /\ pc[r] \in AfterConvert) =>
            /\ Len(converted[r]) = Len(req[r].messages)
            /\ \A i \in 1..Len(converted[r]) :
                  LET m == req[r].messages[i]
                      p == converted[r][i]
                  IN /\ m.role \notin KnownRoles => p[1] = "user"
                     /\ m.role \in KnownRoles => p[1] = m.role
                     /\ p[2] = m.content
            /\ _convert_messages([i \in 1..Len(converted[r]) |->
                    Message(converted[r][i][1], converted[r][i][2])]) = converted[r]
            /\ pc[r] = "get_llm" => ret[r] = None

C6_Witness ==
    /\ pc[1] = "get_llm"
    /\ req[1].kind = "chat"
    /\ req[1].messages = <<Message("tool", "a"), Message("assistant", "b")>>
    /\ converted[1] = <<<<"user", "a">>, <<"assistant", "b">>>>

\* C7: an error of the resolver or of the handle inside the Invoke node
\* leaves chat() as that same error; no {message, model} is returned.
C7_ErrorsPropagateUnchanged ==
    \A r \in Reqs :
        (req[r] # None /\ req[r].kind = "chat") =>
            /\ (pc[r] \in AfterGetLlm /\ ~Resolvable(used[r].model)) =>
                  /\ pc[r] = "raised"
                  /\ ret[r] = [kind |-> "raise", exc |-> ResolutionError]
                  /\ llmSaw[r] = <<>>
            /\ (llmSaw[r] # <<>> /\ ~llmSaw[r][1].outcome.ok) =>
                  /\ pc[r] = "raised"
                  /\ ret[r] = [kind |-> "raise", exc |-> llmSaw[r][1].outcome.exc]
            /\ pc[r] = "returned" =>
                  /\ ret[r].kind = "return"
                  /\ Resolvable(used[r].model)
                  /\ llmSaw[r][1].outcome.ok

C7_Witness ==
    /\ pc[1] = "raised"
    /\ req[1].kind = "chat"
    /\ llmSaw[1] # <<>>
    /\ ret[1].exc \in InvocationErrors

(* ---------------------------------------------------------------------- *)
(* Properties of the streaming route                                       *)
(* ---------------------------------------------------------------------- *)
\* the wire format of section 6, written out
DoneWire == <<"d", "a", "t", "a", ":", " ", "[", "D", "O", "N", "E", "]", "\n", "\n">>
TokenPrefix == <<"d", "a", "t", "a", ":", " ", "{", "\"", "t", "o", "k", "e", "n", "\"", ":", " ">>
ErrorPrefix == <<"d", "a", "t", "a", ":", " ", "{", "\"", "e", "r", "r", "o", "r", "\"", ":", " ">>
MetadataPrefix == <<"d", "a", "t", "a", ":", " ", "{", "\"", "m", "e", "t", "a", "d", "a", "t", "a", "\"", ":", " ">>

StartsWith(s, prefix) == Len(s) >= Len(prefix) /\ SubSeq(s, 1, Len(prefix)) = prefix
EndsWith(s, suffix) ==
    Len(s) >= Len(suffix) /\ SubSeq(s, Len(s) - Len(suffix) + 1, Len(s)) = suffix

IsDoneEvent(e) == e = DoneWire
IsTokenEvent(e) == StartsWith(e, TokenPrefix)
IsErrorEvent(e) == StartsWith(e, ErrorPrefix)

TokenWire(f) == TokenPrefix \o JsonString(f) \o <<"}", "\n", "\n">>
ErrorWire(msg) == ErrorPrefix \o JsonString(msg) \o <<"}", "\n", "\n">>

IsStream(r) == req[r] # None /\ req[r].kind = "stream"
IsChat(r) == req[r] # None /\ req[r].kind = "chat"

\* C1: every finished stream, failed or not, holds exactly one Done
\* sentinel, and it is the last event.
C1_ExactlyOneDoneAndLast ==
    \A r \in Reqs :
        (IsStream(r) /\ pc[r] = "finished") =>
            /\ events[r] # <<>>
            /\ IsDoneEvent(events[r][Len(events[r])])
            /\ Cardinality({i \in 1..Len(events[r]) : IsDoneEvent(events[r][i])}) = 1

\* C2: a stream whose model identifier has no colon or an unknown provider
\* is exactly one Error event, then Done, and no Token event.
C2_BadModelIsErrorThenDone ==
    \A r \in Reqs :
        (/\ IsStream(r)
         /\ pc[r] = "finished"
         /\ req[r].model \in {PyStr(<<"nocolon">>), PyStr(<<"unknownprovider", ":", "x">>)}) =>
            /\ Len(events[r]) = 2
            /\ IsErrorEvent(events[r][1])
            /\ IsDoneEvent(events[r][2])
            /\ \A i \in 1..Len(events[r]) : ~IsTokenEvent(events[r][i])

\* C3: while the backend has not failed, the events are the Token events
\* of the fragments yielded so far, one each and in order; when the stream
\* finishes without failure they are followed by Done and nothing else.
\* Fragments "Hi", "!" give the three lines of the scenario.
C3_TokensInOrderThenDone ==
    \A r \in Reqs :
        (IsStream(r) /\ ret[r] = None) =>
            LET k == Len(produced[r])
                n == Len(events[r])
            IN /\ pc[r] \in {"s_await", "yield_done"} => n = k
               /\ pc[r] = "yield_token" => n = k - 1
               /\ pc[r] = "finished" => n = k + 1 /\ events[r][n] = DoneWire
               /\ \A i \in 1..n : i <= k => events[r][i] = TokenWire(produced[r][i])
               /\ (pc[r] = "finished" /\ produced[r] = <<<<"H", "i">>, <<"!">>>>) =>
                     events[r] =
                        << <<"d", "a", "t", "a", ":", " ", "{", "\"", "t", "o", "k", "e", "n",
                             "\"", ":", " ", "\"", "H", "i", "\"", "}", "\n", "\n">>,
                           <<"d", "a", "t", "a", ":", " ", "{", "\"", "t", "o", "k", "e", "n",
                             "\"", ":", " ", "\"", "!", "\"", "}", "\n", "\n">>,
                           <<"d", "a", "t", "a", ":", " ", "[", "D", "O", "N", "E", "]",
                             "\n", "\n">> >>

C3_Witness ==
    /\ IsStream(1)
    /\ pc[1] = "finished"
    /\ ret[1] = None
    /\ produced[1] = <<<<"H", "i">>, <<"!">>>>
    /\ Len(events[1]) = 3

\* C10: a stream that failed after k fragments is the k Token events, one
\* Error event with the failure's message, then Done.
C10_TokensThenErrorThenDone ==
    \A r \in Reqs :
        (IsStream(r) /\ pc[r] = "finished" /\ ret[r] # None /\ llmSaw[r] # <<>>) =>
            LET k == Len(produced[r])
            IN /\ Len(events[r]) = k + 2
               /\ \A i \in 1..k : events[r][i] = TokenWire(produced[r][i])
               /\ events[r][k + 1] = ErrorWire(ret[r].exc.msg)
               /\ events[r][k + 2] = DoneWire

(* ---------------------------------------------------------------------- *)
(* Statelessness                                                           *)
(* ---------------------------------------------------------------------- *)
\* C8: whatever requests ran or are running, the controller still holds
\* what its constructor stored, and every history the model handle was
\* given for a request is that request's own messages and nothing else.
C8_Stateless ==
    /\ controller = [settings |-> Settings,
                     default_model |-> DefaultModel,
                     default_temperature |-> PyNum(DefaultTemperature)]
    /\ \A r \in Reqs :
          \A c \in 1..Len(llmSaw[r]) :
              LET h == llmSaw[r][c].history
                  own == req[r].messages
              IN /\ Len(h) = Len(own)
                 /\ \A i \in 1..Len(h) :
                       /\ h[i].content = own[i].content
                       /\ h[i].type = IF own[i].role = "assistant" THEN "ai"
                                      ELSE IF own[i].role = "system" THEN "system"
                                      ELSE "human"

C8_Witness ==
    /\ IsChat(1) /\ pc[1] = "returned"
    /\ IsStream(2) /\ pc[2] = "yield_token"
    /\ llmSaw[1] # <<>> /\ llmSaw[2] # <<>>
    /\ req[1].messages # req[2].messages

(* ---------------------------------------------------------------------- *)
(* Wire encoding                                                           *)
(* ---------------------------------------------------------------------- *)
TaggedPrefix(event_type) ==
    CASE event_type = TOKEN -> TokenPrefix
      [] event_type = ERROR -> ErrorPrefix
      [] OTHER              -> MetadataPrefix

\* C9 as stated: every encoding, for every event type and every payload,
\* is the Done line or "data: " and the tagged JSON object, and ends with
\* a blank line.
C9_EveryEncodingFramed ==
    fmt # None =>
        /\ EndsWith(fmt.out, <<"\n", "\n">>)
        /\ fmt.event_type = DONE => fmt.out = DoneWire
        /\ fmt.event_type # DONE => StartsWith(fmt.out, TaggedPrefix(fmt.event_type))

\* C9 amended: Done is the fixed line; a Token, Error or Metadata event
\* with a payload is "data: " and the tagged JSON object of the payload;
\* each of these ends with a blank line and the Done line differs from all
\* tagged ones; without a payload (None) the result is the empty string.
C9_EncodingOfPresentPayloads ==
    fmt # None =>
        /\ fmt.event_type = DONE => fmt.out = DoneWire
        /\ (fmt.event_type # DONE /\ fmt.data # None) =>
              /\ fmt.out = TaggedPrefix(fmt.event_type) \o json_dumps(fmt.data)
                           \o <<"}", "\n", "\n">>
              /\ fmt.out # DoneWire
        /\ (fmt.event_type = DONE \/ fmt.data # None) => EndsWith(fmt.out, <<"\n", "\n">>)
        /\ (fmt.event_type # DONE /\ fmt.data = None) => fmt.out = <<>>
        /\ (fmt.event_type = TOKEN /\ fmt.data = PyStr(<<"\"", "\n">>)) =>
              fmt.out = TokenPrefix \o <<"\"", "\\", "\"", "\\", "n", "\"", "}", "\n", "\n">>
        /\ (fmt.event_type = METADATA /\ fmt.data = PyDict(<<<<<<"k">>, <<"H">>>>>>)) =>
              fmt.out = MetadataPrefix
                        \o <<"{", "\"", "k", "\"", ":", " ", "\"", "H", "\"", "}", "}", "\n", "\n">>

C9_Witness ==
    /\ fmt # None
    /\ fmt.call = "format_metadata"
    /\ fmt.data = PyDict(<<<<<<"k">>, <<"H">>>>>>)
    /\ EndsWith(fmt.out, <<"\n", "\n">>)

(* ---------------------------------------------------------------------- *)
(* Temperature given to the resolver                                       *)
(* ---------------------------------------------------------------------- *)
\* C13: the resolver is called once per chat() call, with the model chat()
\* settled on and with the configured default temperature when the request
\* has none, the request's own temperature otherwise, 0 included.
C13_TemperatureGivenOrDefault ==
    \A r \in Reqs :
        IsChat(r) =>
            /\ pc[r] \in {"convert", "get_llm"} => resolverCalls[r] = <<>>
            /\ pc[r] \in AfterGetLlm =>
                  /\ Len(resolverCalls[r]) = 1
                  /\ resolverCalls[r][1][1] = used[r].model
                  /\ req[r].temperature = None =>
                        resolverCalls[r][1][2] = PyNum(DefaultTemperature)
                  /\ req[r].temperature # None =>
                        resolverCalls[r][1][2] = req[r].temperature

C13_Witness ==
    /\ IsChat(1)
    /\ pc[1] = "returned"
    /\ req[1].temperature = PyNum(0)
    /\ resolverCalls[1] = <<<<DefaultModel, PyNum(0)>>>>

(* ---------------------------------------------------------------------- *)
(* Shape of the events of one generate() run                               *)
(* ---------------------------------------------------------------------- *)
IsTerminalEvent(e) == IsErrorEvent(e) \/ IsDoneEvent(e)

AtInvocation(r) ==
    \/ IsChat(r) /\ pc[r] = "chatbot"
    \/ IsStream(r) /\ pc[r] = "s_await"

InFlight(q) ==
    pc[q] \in {"convert", "get_llm", "build_graph", "graph_start", "chatbot", "graph_end",
               "s_resolve", "s_await", "yield_token", "yield_done", "except"}

RequestStep(q) ==
    \/ ChatStep(q, SharedOutcomes)
    \/ StreamStep(q, SharedFragments, SharedErrors)

\* C11: while a request waits at its model invocation, every other request
\* in flight can take its next step.
C11_InvocationDoesNotBlockOthers ==
    \A r, q \in Reqs :
        (r # q /\ AtInvocation(r) /\ InFlight(q)) => ENABLED RequestStep(q)

====
